---------------------------- MODULE Spec2Model ----------------------------
(***************************************************************************)
(* Image classification service: the ModelLoader / ImageClassifier         *)
(* adapters (backend/models/model_loader.py, backend/model.py), the two    *)
(* upload endpoints /classify (backend/app/main.py) and /predict           *)
(* (backend/main.py), and the ImageProcessor                               *)
(* (backend/utils/image_processor.py).                                     *)
(*                                                                         *)
(* Specifications: Spec (the two endpoints), LoaderSpec (sequential calls  *)
(* of the adapters), ThreadSpec (calls of the adapters from threads),      *)
(* RankSpec (the ranking on every score vector), TensorSpec (tensors of    *)
(* any shape passed to the adapters), ProcSpec (calls of the image         *)
(* processor), ResizeSpec (the preprocessing on every image size),         *)
(* HealthSpec (the endpoints together with GET /health), ReplySpec (the    *)
(* responses of the endpoints on every score vector).                      *)
(*                                                                         *)
(* A tensor is represented by the score vector the network computes for    *)
(* it (the network is a fixed function of its input in evaluation mode).   *)
(* Scores are integers and the softmax is taken to base 2, i.e. the score  *)
(* vectors stand for the real vectors s * ln 2; probabilities are exact    *)
(* rationals num/den.                                                      *)
(***************************************************************************)
EXTENDS Integers, Sequences, FiniteSets, TLC

\* ------------------------------------------------------------- bounds
\* number of classes of the catalog (1000 in the program)
NumClasses == 5
\* requests in flight at a time
NumRequests == 1
\* caller threads of the adapters
NumThreads == 2
\* cap on invocations of an underlying model constructor
MaxCtorCalls == 2

\* widths and heights of the images resized: 1 .. MaxSide and the multiples
\* SideStep, 2 * SideStep, ..., MaxSide * SideStep
MaxSide == 24
SideStep == 37

\* k passed by /classify and hard-wired in ImageClassifier.predict
TopK == 5
\* digits kept by round(confidence, 4)
RoundDigits == 4

Classes == 0 .. (NumClasses - 1)
ScoreValues == {0, 1, 2}
ScoreVectors == [Classes -> ScoreValues]

\* ------------------------------------------------------- class catalog
\* weights.meta["categories"]: one label per class index; the ImageNet list
\* holds repeated labels ("crane", "maillot"), so labels do not determine
\* the index: classes 0 and 1 carry the same label here.
class_names == [i \in Classes |-> IF i = 1 THEN <<"category", 0>> ELSE <<"category", i>>]

\* ------------------------------------------------------------ softmax
RECURSIVE Pow2(_)
Pow2(n) == IF n <= 0 THEN 1 ELSE 2 * Pow2(n - 1)

RECURSIVE Pow10(_)
Pow10(n) == IF n <= 0 THEN 1 ELSE 10 * Pow10(n - 1)

RECURSIVE SumOver(_, _)
SumOver(f, S) ==
    IF S = {} THEN 0
    ELSE LET x == CHOOSE y \in S : TRUE IN f[x] + SumOver(f, S \ {x})

\* a normalisation by the largest weight instead of the sum of the weights
softmax_by_max(scores) ==
    LET w == [i \in Classes |-> Pow2(scores[i])]
        largest == CHOOSE x \in {w[i] : i \in Classes} : \A i \in Classes : w[i] <= x
    IN [i \in Classes |-> [num |-> w[i], den |-> largest]]

\* torch.nn.functional.softmax(outputs[0], dim=0)
softmax(scores) ==
    LET w == [i \in Classes |-> Pow2(scores[i])]
        total == SumOver(w, Classes)
    IN [i \in Classes |-> [num |-> w[i], den |-> total]]

\* comparison of two probabilities
ProbLeq(p, q) == p.num * q.den <= q.num * p.den
ProbEq(p, q) == p.num * q.den = q.num * p.den

\* ---------------------------------------------------------- torch.topk
\* the classes of S whose probability is maximal in S
ArgMax(probs, S) == {c \in S : \A d \in S : ProbLeq(probs[d], probs[c])}

\* torch.topk(probabilities, k) with sorted=True: the k largest values in
\* descending order; which of several equal entries comes first (or makes
\* the cut) is not specified by the library, so every order of a tie is a
\* possible outcome.
RECURSIVE TopKFrom(_, _, _)
TopKFrom(probs, S, k) ==
    IF k = 0 THEN {<<>>}
    ELSE UNION {{<<c>> \o rest : rest \in TopKFrom(probs, S \ {c}, k - 1)} :
                c \in ArgMax(probs, S)}

\* a selection of the k smallest entries instead of the k largest
RECURSIVE SmallestKFrom(_, _, _)
SmallestKFrom(probs, S, k) ==
    IF k = 0 THEN {<<>>}
    ELSE UNION {{<<c>> \o rest : rest \in SmallestKFrom(probs, S \ {c}, k - 1)} :
                c \in {c \in S : \A d \in S : ProbLeq(probs[c], probs[d])}}

topk_smallest(probs, k) ==
    IF k < 0 \/ k > NumClasses THEN {} ELSE SmallestKFrom(probs, Classes, k)

\* the index sequences torch.topk may return; {} when it raises
\* (k out of range: "selected index k out of range")
topk(probs, k) ==
    IF k < 0 \/ k > NumClasses THEN {} ELSE TopKFrom(probs, Classes, k)

\* round(confidence, 4): ten-thousandths, halves to even
round(p) ==
    LET scale == Pow10(RoundDigits)
        n == (p.num * scale) \div p.den
        r == (p.num * scale) % p.den
    IN IF 2 * r < p.den THEN n
       ELSE IF 2 * r > p.den THEN n + 1
       ELSE IF n % 2 = 0 THEN n ELSE n + 1

\* ------------------------------------------------------------- state
VARIABLES
    model,               \* ModelLoader.model
    ctorCalls,           \* invocations of models.mobilenet_v2 (history)
    ctorOk,              \* invocations of models.mobilenet_v2 that returned (history)
    classifier_instance, \* model.py: _classifier_instance
    clsCtorCalls,        \* invocations of ImageClassifier() (history)
    clsCtorOk,           \* invocations of ImageClassifier() that returned (history)
    call,                \* the last direct call of an adapter method, with its result
    req,                 \* the upload requests in flight
    thr,                 \* caller threads of the adapters
    image_processor      \* image_processor.py: the ImageProcessor instance

vars == <<model, ctorCalls, ctorOk, classifier_instance, clsCtorCalls, clsCtorOk,
          call, req, thr, image_processor>>

\* self.model = None
NoModel == [set |-> FALSE, id |-> 0, evalMode |-> FALSE, onDevice |-> FALSE]
\* _classifier_instance = None
NoInstance == [set |-> FALSE, id |-> 0]

\* where loading may fail: in the constructor (weights cannot be fetched),
\* in model.eval(), in model.to(device)
LoadFailures == {"none", "ctor", "eval", "to"}

\* ---------------------------------------------------- ModelLoader
\* load_model without its "if self.model is None" test
load_model_unguarded(m, n, fail) ==
    IF fail = "ctor" THEN [model |-> m, raised |-> TRUE, ctor |-> 1]
    ELSE [model |-> [set |-> TRUE, id |-> n, evalMode |-> TRUE, onDevice |-> TRUE],
          raised |-> FALSE, ctor |-> 1]

\* a load that invokes the constructor a second time when it raised
load_model_retry(m, n, fail) ==
    IF m.set THEN [model |-> m, raised |-> FALSE, ctor |-> 0]
    ELSE IF fail = "ctor" THEN [model |-> m, raised |-> TRUE, ctor |-> 2]
    ELSE [model |-> [set |-> TRUE, id |-> n, evalMode |-> TRUE, onDevice |-> TRUE],
          raised |-> fail # "none", ctor |-> 1]

\* ModelLoader.load_model: the new handle, whether it raised, and the number
\* of constructor invocations it made.  n numbers the object the constructor
\* returns (its identity).
load_model(m, n, fail) ==
    IF m.set THEN [model |-> m, raised |-> FALSE, ctor |-> 0]
    ELSE IF fail = "ctor" THEN [model |-> m, raised |-> TRUE, ctor |-> 1]
    ELSE IF fail = "eval"
         THEN [model |-> [set |-> TRUE, id |-> n, evalMode |-> FALSE, onDevice |-> FALSE],
               raised |-> TRUE, ctor |-> 1]
    ELSE IF fail = "to"
         THEN [model |-> [set |-> TRUE, id |-> n, evalMode |-> TRUE, onDevice |-> FALSE],
               raised |-> TRUE, ctor |-> 1]
    ELSE [model |-> [set |-> TRUE, id |-> n, evalMode |-> TRUE, onDevice |-> TRUE],
          raised |-> FALSE, ctor |-> 1]

\* inference that never loads: the network is invoked on whatever handle is set
InferNoLoad(m, n, tensor, fail, inferFail) ==
    [model |-> m, ctor |-> 0, raised |-> inferFail, invoked |-> m,
     probabilities |-> IF inferFail THEN <<>> ELSE softmax(tensor)]

\* inference that relies on the evaluation mode load_model has set
InferNoEval(m, n, tensor, fail, inferFail) ==
    LET l == IF m.set THEN [model |-> m, raised |-> FALSE, ctor |-> 0]
             ELSE load_model(m, n, fail)
    IN IF l.raised
       THEN [model |-> l.model, ctor |-> l.ctor, raised |-> TRUE,
             invoked |-> NoModel, probabilities |-> <<>>]
       ELSE IF inferFail \/ ~l.model.onDevice
            THEN [model |-> l.model, ctor |-> l.ctor, raised |-> TRUE,
                  invoked |-> l.model, probabilities |-> <<>>]
            ELSE [model |-> l.model, ctor |-> l.ctor, raised |-> FALSE,
                  invoked |-> l.model, probabilities |-> softmax(tensor)]

\* lines 61-73 / 95-107: load if needed, model.eval(), run the network and
\* the softmax.  invoked is the handle the network was invoked on (NoModel
\* when it was not invoked).
Infer(m, n, tensor, fail, inferFail) ==
    LET l == IF m.set THEN [model |-> m, raised |-> FALSE, ctor |-> 0]
             ELSE load_model(m, n, fail)
    IN IF l.raised
       THEN [model |-> l.model, ctor |-> l.ctor, raised |-> TRUE,
             invoked |-> NoModel, probabilities |-> <<>>]
       ELSE LET m2 == [l.model EXCEPT !.evalMode = TRUE]
            IN IF inferFail \/ ~m2.onDevice
               THEN [model |-> m2, ctor |-> l.ctor, raised |-> TRUE,
                     invoked |-> m2, probabilities |-> <<>>]
               ELSE [model |-> m2, ctor |-> l.ctor, raised |-> FALSE,
                     invoked |-> m2, probabilities |-> softmax(tensor)]

\* a label looked up one entry further
LabelIndexNext(c) == (c + 1) % NumClasses

\* the class index predict looks the label up at
LabelIndex(c) == c

\* ModelLoader.predict: the possible outcomes of one call
predict(m, n, tensor, fail, inferFail) ==
    LET i == Infer(m, n, tensor, fail, inferFail)
    IN IF i.raised
       THEN {[model |-> i.model, ctor |-> i.ctor, raised |-> TRUE, invoked |-> i.invoked,
              top |-> <<>>, ret |-> <<>>]}
       ELSE {[model |-> i.model, ctor |-> i.ctor, raised |-> FALSE, invoked |-> i.invoked,
              top |-> t,
              ret |-> [class_name |-> class_names[LabelIndex(t[1])],
                       confidence |-> i.probabilities[t[1]]]] :
             t \in topk(i.probabilities, 1)}

\* a result list that stops one entry early
TopKResultsShort(probabilities, top, k) ==
    [j \in 1 .. (k - 1) |-> [class_name |-> class_names[top[j]],
                             confidence |-> probabilities[top[j]]]]

\* lines 113-120: the result list built from the indices torch.topk returned
TopKResults(probabilities, top, k) ==
    [j \in 1 .. k |-> [class_name |-> class_names[top[j]],
                       confidence |-> probabilities[top[j]]]]

\* a predict_top_k that clamps k to the number of classes
predict_top_k_clamped(m, n, tensor, k, fail, inferFail) ==
    LET i == Infer(m, n, tensor, fail, inferFail)
        kk == IF k > NumClasses THEN NumClasses ELSE k
        raise == [model |-> i.model, ctor |-> i.ctor, raised |-> TRUE,
                  invoked |-> i.invoked, top |-> <<>>, ret |-> <<>>]
    IN IF i.raised \/ topk(i.probabilities, kk) = {}
       THEN {raise}
       ELSE {[model |-> i.model, ctor |-> i.ctor, raised |-> FALSE, invoked |-> i.invoked,
              top |-> t, ret |-> TopKResults(i.probabilities, t, kk)] :
             t \in topk(i.probabilities, kk)}

\* ModelLoader.predict_top_k: the possible outcomes of one call
predict_top_k(m, n, tensor, k, fail, inferFail) ==
    LET i == Infer(m, n, tensor, fail, inferFail)
        raise == [model |-> i.model, ctor |-> i.ctor, raised |-> TRUE,
                  invoked |-> i.invoked, top |-> <<>>, ret |-> <<>>]
    IN IF i.raised \/ topk(i.probabilities, k) = {}
       THEN {raise}
       ELSE {[model |-> i.model, ctor |-> i.ctor, raised |-> FALSE, invoked |-> i.invoked,
              top |-> t, ret |-> TopKResults(i.probabilities, t, k)] :
             t \in topk(i.probabilities, k)}

\* ------------------------------------------------------ ImageClassifier
\* get_classifier: ImageClassifier() is constructed when no instance is
\* cached; __init__ raises when torch.hub.load, eval() or to() does, and the
\* global is then left unassigned.  n numbers the new instance.
get_classifier(inst, n, fail) ==
    IF inst.set THEN [instance |-> inst, raised |-> FALSE, ctor |-> 0]
    ELSE IF fail # "none" THEN [instance |-> inst, raised |-> TRUE, ctor |-> 1]
    ELSE [instance |-> [set |-> TRUE, id |-> n], raised |-> FALSE, ctor |-> 1]

\* ------------------------------------------------------- ImageProcessor
\* transforms.Resize(256), transforms.CenterCrop(224)
ResizeSize == 256
CropSize == 224
\* len(mean) of transforms.Normalize: the channels it accepts
NormalizeChannels == 3

\* ImageProcessor.__init__: self.transform, the only attribute
ImageProcessor ==
    [transform |-> [Resize |-> ResizeSize, CenterCrop |-> CropSize,
                    Normalize |-> NormalizeChannels]]

\* PIL modes of the images the decoders open, and the bands of each
Modes == {"L", "P", "RGB", "RGBA", "CMYK"}
getbands(mode) ==
    CASE mode = "L" -> 1
      [] mode = "P" -> 1
      [] mode = "RGB" -> 3
      [] mode = "RGBA" -> 4
      [] mode = "CMYK" -> 4

NoImage == [mode |-> "none", width |-> 0, height |-> 0, intact |-> FALSE,
            scores |-> <<>>]
NoTensor == [shape |-> <<>>, padded |-> FALSE, data |-> NoImage]

\* an exception of class kind leaving a loader
LoadError(kind) == [raised |-> TRUE, kind |-> kind, image |-> NoImage]

\* Image.open on a stream: the header is parsed (UnidentifiedImageError when
\* no decoder recognises it), the pixel data are not read yet
open(data) ==
    IF ~data.image THEN LoadError("UnidentifiedImageError")
    ELSE [raised |-> FALSE, kind |-> "none",
          image |-> [mode |-> data.mode, width |-> data.width,
                     height |-> data.height, intact |-> data.intact,
                     scores |-> data.scores]]

\* Image.convert(mode): reads the pixel data (OSError when they are
\* truncated) and converts them
convert(image, mode) ==
    IF ~image.intact THEN LoadError("OSError")
    ELSE [raised |-> FALSE, kind |-> "none", image |-> [image EXCEPT !.mode = mode]]

\* a loader that returns the image in the mode of its file
load_image_as_is(image_bytes) == open(image_bytes)

\* ImageProcessor.load_image_from_bytes
load_image_from_bytes(image_bytes) ==
    LET o == open(image_bytes)
    IN IF o.raised THEN o
       ELSE IF o.image.mode # "RGB" THEN convert(o.image, "RGB")
       ELSE o

\* the files of the host: the paths that exist and their contents
FileSystem ==
    [path \in {"photo.png", "gray.png", "notes.jpg"} |->
        CASE path = "photo.png" ->
                 [image |-> TRUE, intact |-> TRUE, mode |-> "RGBA", width |-> 640,
                  height |-> 480, scores |-> <<>>]
          [] path = "gray.png" ->
                 [image |-> TRUE, intact |-> TRUE, mode |-> "L", width |-> 100,
                  height |-> 300, scores |-> <<>>]
          [] path = "notes.jpg" ->
                 [image |-> FALSE, intact |-> FALSE, mode |-> "none", width |-> 0,
                  height |-> 0, scores |-> <<>>]]
Paths == DOMAIN FileSystem \cup {"/nonexistent/path/image.jpg"}

\* a loader that reports every failure as the same OSError
load_image_from_path_oserror(image_path) ==
    IF image_path \notin DOMAIN FileSystem THEN LoadError("OSError")
    ELSE LET o == load_image_from_bytes(FileSystem[image_path])
         IN IF o.raised THEN LoadError("OSError") ELSE o

\* ImageProcessor.load_image_from_path: Image.open(path) opens the file
\* (FileNotFoundError when there is none)
load_image_from_path(image_path) ==
    IF image_path \notin DOMAIN FileSystem THEN LoadError("FileNotFoundError")
    ELSE LET o == open(FileSystem[image_path])
         IN IF o.raised THEN o
            ELSE IF o.image.mode # "RGB" THEN convert(o.image, "RGB")
            ELSE o

\* a resize that brings the longer edge to size
ResizeLonger(size, image) ==
    LET w == image.width
        h == image.height
        short == IF w <= h THEN w ELSE h
        long == IF w <= h THEN h ELSE w
        new_short == (size * short) \div long
    IN [image EXCEPT !.width = IF w <= h THEN new_short ELSE size,
                     !.height = IF w <= h THEN size ELSE new_short]

\* transforms.Resize(size) with an int size, on a PIL image:
\* new_short, new_long = size, int(size * long / short)
Resize(size, image) ==
    LET w == image.width
        h == image.height
        short == IF w <= h THEN w ELSE h
        long == IF w <= h THEN h ELSE w
        new_long == (size * long) \div short
    IN [image EXCEPT !.width = IF w <= h THEN size ELSE new_long,
                     !.height = IF w <= h THEN new_long ELSE size]

\* int(round(n / 2.0)): Python rounds halves to even
RoundHalf(n) ==
    LET q == n \div 2
    IN IF n % 2 = 0 THEN q ELSE IF q % 2 = 0 THEN q ELSE q + 1

\* transforms.CenterCrop(size): the crop box, and whether the image had to
\* be padded because an edge is shorter than size
CenterCrop(size, image) ==
    LET padded == size > image.width \/ size > image.height
        w == IF size > image.width THEN size ELSE image.width
        h == IF size > image.height THEN size ELSE image.height
        crop_top == RoundHalf(h - size)
        crop_left == RoundHalf(w - size)
    IN [image |-> [image EXCEPT !.width = size, !.height = size],
        padded |-> padded,
        box |-> [left |-> crop_left, top |-> crop_top]]

\* transforms.ToTensor: channels x height x width
ToTensor(image) == <<getbands(image.mode), image.height, image.width>>

\* tensor.unsqueeze(0)
unsqueeze(shape) == <<1>> \o shape

\* a preprocessing that leaves the batch dimension out
preprocess_image_unbatched(image) ==
    LET t == image_processor.transform
        cropped == CenterCrop(t.CenterCrop, Resize(t.Resize, image))
        shape == ToTensor(cropped.image)
    IN IF ~image.intact \/ shape[1] # t.Normalize
       THEN [raised |-> TRUE, kind |-> IF image.intact THEN "RuntimeError" ELSE "OSError",
             tensor |-> NoTensor]
       ELSE [raised |-> FALSE, kind |-> "none",
             tensor |-> [shape |-> shape, padded |-> cropped.padded,
                         data |-> image]]

\* ImageProcessor.preprocess_image: self.transform(image) and unsqueeze(0).
\* Resize reads the pixel data (OSError when they are truncated); Normalize
\* raises when the tensor does not have the channels of its mean.
preprocess_image(image) ==
    LET t == image_processor.transform
        cropped == CenterCrop(t.CenterCrop, Resize(t.Resize, image))
        shape == ToTensor(cropped.image)
    IN IF ~image.intact \/ shape[1] # t.Normalize
       THEN [raised |-> TRUE, kind |-> IF image.intact THEN "RuntimeError" ELSE "OSError",
             tensor |-> NoTensor]
       ELSE [raised |-> FALSE, kind |-> "none",
             tensor |-> [shape |-> unsqueeze(shape), padded |-> cropped.padded,
                         data |-> image]]

\* the outcome of a process_* call: self after the call, whether it raised,
\* the tensor it returns and, for the network, the scores of that tensor
Processed(self, l, p) ==
    IF l.raised
    THEN [self |-> self, raised |-> TRUE, kind |-> l.kind, loaded |-> NoImage,
          result |-> NoTensor, tensor |-> <<>>]
    ELSE [self |-> self, raised |-> p.raised, kind |-> p.kind, loaded |-> l.image,
          result |-> p.tensor, tensor |-> l.image.scores]

\* a processor that keeps the size of the last image as its resize target
process_from_bytes_stateful(image_bytes) ==
    LET l == load_image_from_bytes(image_bytes)
    IN Processed([image_processor EXCEPT !.transform.Resize =
                      IF l.raised THEN @ ELSE @ + l.image.width],
                 l, IF l.raised THEN l ELSE preprocess_image(l.image))

\* ImageProcessor.process_from_bytes
process_from_bytes(image_bytes) ==
    LET l == load_image_from_bytes(image_bytes)
    IN Processed(image_processor, l, IF l.raised THEN l ELSE preprocess_image(l.image))

\* ImageProcessor.process_from_path
process_from_path(image_path) ==
    LET l == load_image_from_path(image_path)
    IN Processed(image_processor, l, IF l.raised THEN l ELSE preprocess_image(l.image))

\* ------------------------------------------------------------- inputs
\* the images uploaded or passed to the adapters, each given by its score
\* vector: one with classes 0 and 1 tied at the maximum, one with classes 2
\* and 3 tied below it
Images ==
    {[i \in Classes |-> IF i <= 1 THEN NumClasses ELSE i],
     [i \in Classes |-> IF i \in {2, 3} THEN 1 ELSE i + 2]}

NoCall == [op |-> "none", tensor |-> <<>>, k |-> 0, wasSet |-> FALSE, ctor |-> 0,
           raised |-> FALSE, invoked |-> NoModel, top |-> <<>>, ret |-> <<>>]

IdleRequest == [pc |-> "idle"]
IdleThread == [pc |-> "idle"]
Requests == 1 .. NumRequests
Threads == 1 .. NumThreads

InitService ==
    /\ model = NoModel
    /\ ctorCalls = 0
    /\ ctorOk = 0
    /\ classifier_instance = NoInstance
    /\ clsCtorCalls = 0
    /\ clsCtorOk = 0
    /\ req = [r \in Requests |-> IdleRequest]
    /\ thr = [t \in Threads |-> IdleThread]
    /\ image_processor = ImageProcessor

\* the failures the environment may inject into a load: none when the handle
\* is already set (nothing is loaded then)
FailuresFor(isSet) == IF isSet THEN {"none"} ELSE LoadFailures

\* how many of the c constructor invocations of an outcome returned
Returned(c, isSet) == IF c = 1 /\ isSet THEN 1 ELSE 0

\* -------------------------------------------- direct calls, one at a time
\* model_loader.load_model()
LoadModel ==
    /\ model.set \/ ctorCalls < MaxCtorCalls
    /\ \E fail \in FailuresFor(model.set) :
         LET l == load_model(model, ctorCalls + 1, fail)
         IN /\ model' = l.model
            /\ ctorCalls' = ctorCalls + l.ctor
            /\ ctorOk' = ctorOk + Returned(l.ctor, l.model.set)
            /\ call' = [NoCall EXCEPT !.op = "load_model", !.wasSet = model.set,
                                      !.ctor = l.ctor, !.raised = l.raised]
    /\ UNCHANGED <<image_processor, classifier_instance, clsCtorCalls, clsCtorOk, req, thr>>

\* model_loader.predict(t)
PredictCall(t) ==
    /\ model.set \/ ctorCalls < MaxCtorCalls
    /\ \E fail \in FailuresFor(model.set), inferFail \in BOOLEAN :
         \E o \in predict(model, ctorCalls + 1, t, fail, inferFail) :
            /\ model' = o.model
            /\ ctorCalls' = ctorCalls + o.ctor
            /\ ctorOk' = ctorOk + Returned(o.ctor, o.model.set)
            /\ call' = [op |-> "predict", tensor |-> t, k |-> 1, wasSet |-> model.set,
                        ctor |-> o.ctor, raised |-> o.raised, invoked |-> o.invoked,
                        top |-> o.top,
                        ret |-> IF o.raised THEN <<>> ELSE <<o.ret>>]
    /\ UNCHANGED <<image_processor, classifier_instance, clsCtorCalls, clsCtorOk, req, thr>>

\* model_loader.predict_top_k(t, k)
PredictTopKCall(t, k) ==
    /\ model.set \/ ctorCalls < MaxCtorCalls
    /\ \E fail \in FailuresFor(model.set), inferFail \in BOOLEAN :
         \E o \in predict_top_k(model, ctorCalls + 1, t, k, fail, inferFail) :
            /\ model' = o.model
            /\ ctorCalls' = ctorCalls + o.ctor
            /\ ctorOk' = ctorOk + Returned(o.ctor, o.model.set)
            /\ call' = [op |-> "predict_top_k", tensor |-> t, k |-> k,
                        wasSet |-> model.set, ctor |-> o.ctor, raised |-> o.raised,
                        invoked |-> o.invoked, top |-> o.top, ret |-> o.ret]
    /\ UNCHANGED <<image_processor, classifier_instance, clsCtorCalls, clsCtorOk, req, thr>>

\* get_classifier()
GetClassifier ==
    /\ classifier_instance.set \/ clsCtorCalls < MaxCtorCalls
    /\ \E fail \in FailuresFor(classifier_instance.set) :
         LET g == get_classifier(classifier_instance, clsCtorCalls + 1, fail)
         IN /\ classifier_instance' = g.instance
            /\ clsCtorCalls' = clsCtorCalls + g.ctor
            /\ clsCtorOk' = clsCtorOk + Returned(g.ctor, g.instance.set)
            /\ call' = [NoCall EXCEPT !.op = "get_classifier",
                                      !.wasSet = classifier_instance.set,
                                      !.ctor = g.ctor, !.raised = g.raised,
                                      !.ret = IF g.raised THEN <<>> ELSE <<g.instance>>]
    /\ UNCHANGED <<image_processor, model, ctorCalls, ctorOk, req, thr>>

Predict == \E t \in Images : PredictCall(t)
PredictTopK == \E t \in Images, k \in {1, TopK} : PredictTopKCall(t, k)

InitLoader == InitService /\ call = NoCall
NextLoader == LoadModel \/ Predict \/ PredictTopK \/ GetClassifier
LoaderSpec == InitLoader /\ [][NextLoader]_vars

\* ------------------------------------- the ranking as a function of (t, k)
\* a loaded service; the adapter methods are applied once to every score
\* vector and every k
InitRank ==
    /\ model = [set |-> TRUE, id |-> 1, evalMode |-> TRUE, onDevice |-> TRUE]
    /\ ctorCalls = 1
    /\ ctorOk = 1
    /\ classifier_instance = NoInstance
    /\ clsCtorCalls = 0
    /\ clsCtorOk = 0
    /\ req = [r \in Requests |-> IdleRequest]
    /\ thr = [t \in Threads |-> IdleThread]
    /\ image_processor = ImageProcessor
    /\ \E t \in ScoreVectors, k \in 0 .. (NumClasses + 1) :
         call = [NoCall EXCEPT !.op = "input", !.tensor = t, !.k = k]

RankPredict == call.op = "input" /\ PredictCall(call.tensor)
RankPredictTopK == call.op = "input" /\ PredictTopKCall(call.tensor, call.k)
NextRank == RankPredict \/ RankPredictTopK
RankSpec == InitRank /\ [][NextRank]_vars

\* ------------------------------------------------ callers on threads
\* Each thread makes direct calls of load_model, predict, predict_top_k or
\* get_classifier; a step is one statement of the method, and the steps of
\* different threads interleave freely (nothing in either module takes a lock).
Ops == {"load_model", "predict", "predict_top_k", "get_classifier"}

\* the tensors a call of op may be given (none for the two loaders)
ArgsOf(op) == IF op \in {"predict", "predict_top_k"} THEN Images ELSE {<<>>}

Goto(t, pc) == thr' = [thr EXCEPT ![t].pc = pc]

\* a thread enters one of the methods
ThreadCall(t) ==
    /\ thr[t].pc = "idle"
    /\ \E op \in Ops : \E x \in ArgsOf(op) :
         thr' = [thr EXCEPT ![t] =
                    [pc |-> CASE op = "load_model" -> "load_check"
                              [] op = "get_classifier" -> "get_check"
                              [] OTHER -> "predict_check",
                     op |-> op, tensor |-> x,
                     k |-> IF op = "predict_top_k" THEN TopK ELSE 1,
                     local |-> 0, raised |-> FALSE, top |-> <<>>]]
    /\ UNCHANGED <<image_processor, model, ctorCalls, ctorOk, classifier_instance, clsCtorCalls,
                   clsCtorOk, call, req>>

\* predict / predict_top_k: "if self.model is None: self.load_model()"
PredictCheck(t) ==
    /\ thr[t].pc = "predict_check"
    /\ Goto(t, IF model.set THEN "predict_eval" ELSE "load_check")
    /\ UNCHANGED <<image_processor, model, ctorCalls, ctorOk, classifier_instance, clsCtorCalls,
                   clsCtorOk, call, req>>

\* where load_model returns to
AfterLoad(t) == IF thr[t].op = "load_model" THEN "done" ELSE "predict_eval"

\* load_model: "if self.model is None:"
LoadCheck(t) ==
    /\ thr[t].pc = "load_check"
    /\ Goto(t, IF model.set THEN AfterLoad(t) ELSE "load_construct")
    /\ UNCHANGED <<image_processor, model, ctorCalls, ctorOk, classifier_instance, clsCtorCalls,
                   clsCtorOk, call, req>>

\* load_model: models.mobilenet_v2(weights=weights) runs, and may raise
LoadConstruct(t) ==
    /\ thr[t].pc = "load_construct"
    /\ ctorCalls < MaxCtorCalls
    /\ ctorCalls' = ctorCalls + 1
    /\ \E ok \in BOOLEAN :
         /\ ctorOk' = ctorOk + (IF ok THEN 1 ELSE 0)
         /\ thr' = [thr EXCEPT ![t].pc = IF ok THEN "load_assign" ELSE "done",
                               ![t].local = ctorCalls + 1,
                               ![t].raised = ~ok]
    /\ UNCHANGED <<image_processor, model, classifier_instance, clsCtorCalls, clsCtorOk, call, req>>

\* load_model: "self.model = ..." stores the constructed model
LoadAssign(t) ==
    /\ thr[t].pc = "load_assign"
    /\ model' = [set |-> TRUE, id |-> thr[t].local, evalMode |-> FALSE,
                 onDevice |-> FALSE]
    /\ Goto(t, "load_eval")
    /\ UNCHANGED <<image_processor, ctorCalls, ctorOk, classifier_instance, clsCtorCalls, clsCtorOk,
                   call, req>>

\* load_model: "self.model.eval()", on whatever self.model is now
LoadEval(t) ==
    /\ thr[t].pc = "load_eval"
    /\ \E ok \in BOOLEAN :
         /\ model' = IF ok THEN [model EXCEPT !.evalMode = TRUE] ELSE model
         /\ thr' = [thr EXCEPT ![t].pc = IF ok THEN "load_to" ELSE "done",
                               ![t].raised = ~ok]
    /\ UNCHANGED <<image_processor, ctorCalls, ctorOk, classifier_instance, clsCtorCalls, clsCtorOk,
                   call, req>>

\* load_model: "self.model.to(self.device)"
LoadTo(t) ==
    /\ thr[t].pc = "load_to"
    /\ \E ok \in BOOLEAN :
         /\ model' = IF ok THEN [model EXCEPT !.onDevice = TRUE] ELSE model
         /\ thr' = [thr EXCEPT ![t].pc = IF ok THEN AfterLoad(t) ELSE "done",
                               ![t].raised = ~ok]
    /\ UNCHANGED <<image_processor, ctorCalls, ctorOk, classifier_instance, clsCtorCalls, clsCtorOk,
                   call, req>>

\* predict / predict_top_k: "self.model.eval()"
PredictEval(t) ==
    /\ thr[t].pc = "predict_eval"
    /\ model' = [model EXCEPT !.evalMode = TRUE]
    /\ Goto(t, "predict_forward")
    /\ UNCHANGED <<image_processor, ctorCalls, ctorOk, classifier_instance, clsCtorCalls, clsCtorOk,
                   call, req>>

\* predict / predict_top_k: forward pass, softmax, torch.topk and the result
PredictForward(t) ==
    /\ thr[t].pc = "predict_forward"
    /\ \E inferFail \in BOOLEAN :
         LET tops == topk(softmax(thr[t].tensor), thr[t].k)
         IN IF inferFail \/ ~model.onDevice \/ tops = {}
            THEN thr' = [thr EXCEPT ![t].pc = "done", ![t].raised = TRUE]
            ELSE \E top \in tops :
                    thr' = [thr EXCEPT ![t].pc = "done", ![t].top = top]
    /\ UNCHANGED <<image_processor, model, ctorCalls, ctorOk, classifier_instance, clsCtorCalls,
                   clsCtorOk, call, req>>

\* get_classifier: "if _classifier_instance is None:"
GetCheck(t) ==
    /\ thr[t].pc = "get_check"
    /\ Goto(t, IF classifier_instance.set THEN "done" ELSE "get_construct")
    /\ UNCHANGED <<image_processor, model, ctorCalls, ctorOk, classifier_instance, clsCtorCalls,
                   clsCtorOk, call, req>>

\* get_classifier: ImageClassifier() runs (torch.hub.load, eval, to)
GetConstruct(t) ==
    /\ thr[t].pc = "get_construct"
    /\ clsCtorCalls < MaxCtorCalls
    /\ clsCtorCalls' = clsCtorCalls + 1
    /\ \E ok \in BOOLEAN :
         /\ clsCtorOk' = clsCtorOk + (IF ok THEN 1 ELSE 0)
         /\ thr' = [thr EXCEPT ![t].pc = IF ok THEN "get_assign" ELSE "done",
                               ![t].local = clsCtorCalls + 1,
                               ![t].raised = ~ok]
    /\ UNCHANGED <<image_processor, model, ctorCalls, ctorOk, classifier_instance, call, req>>

\* get_classifier: "_classifier_instance = ..."
GetAssign(t) ==
    /\ thr[t].pc = "get_assign"
    /\ classifier_instance' = [set |-> TRUE, id |-> thr[t].local]
    /\ Goto(t, "done")
    /\ UNCHANGED <<image_processor, model, ctorCalls, ctorOk, clsCtorCalls, clsCtorOk, call, req>>

\* the call has returned or raised; the thread may call again
ThreadReturn(t) ==
    /\ thr[t].pc = "done"
    /\ thr' = [thr EXCEPT ![t] = IdleThread]
    /\ UNCHANGED <<image_processor, model, ctorCalls, ctorOk, classifier_instance, clsCtorCalls,
                   clsCtorOk, call, req>>

InitThreads == InitService /\ call = NoCall
NextThreads ==
    \E t \in Threads :
        \/ ThreadCall(t)
        \/ PredictCheck(t)
        \/ LoadCheck(t)
        \/ LoadConstruct(t)
        \/ LoadAssign(t)
        \/ LoadEval(t)
        \/ LoadTo(t)
        \/ PredictEval(t)
        \/ PredictForward(t)
        \/ GetCheck(t)
        \/ GetConstruct(t)
        \/ GetAssign(t)
        \/ ThreadReturn(t)
ThreadSpec == InitThreads /\ [][NextThreads]_vars

\* ------------------------------------------------------------ file names
\* a file name is the sequence of its characters
UpperCase == <<"A", "B", "C", "D", "E", "F", "G", "H", "I", "J", "K", "L", "M",
               "N", "O", "P", "Q", "R", "S", "T", "U", "V", "W", "X", "Y", "Z">>
LowerCase == <<"a", "b", "c", "d", "e", "f", "g", "h", "i", "j", "k", "l", "m",
               "n", "o", "p", "q", "r", "s", "t", "u", "v", "w", "x", "y", "z">>

\* str.lower()
lower(s) ==
    [i \in 1 .. Len(s) |->
        IF \E j \in 1 .. Len(UpperCase) : UpperCase[j] = s[i]
        THEN LowerCase[CHOOSE j \in 1 .. Len(UpperCase) : UpperCase[j] = s[i]]
        ELSE s[i]]

\* str.rfind(ch) + 1: the last position of ch in s, 0 when there is none
rfind(s, ch) ==
    IF \E i \in 1 .. Len(s) : s[i] = ch
    THEN CHOOSE i \in 1 .. Len(s) : s[i] = ch /\ \A j \in (i + 1) .. Len(s) : s[j] # ch
    ELSE 0

\* os.path.splitext (posixpath): the extension starts at the last dot of the
\* last path component, leading dots of the component not counted
splitext(p) ==
    LET sepIndex == rfind(p, "/")
        dotIndex == rfind(p, ".")
    IN IF dotIndex > sepIndex /\ \E i \in (sepIndex + 1) .. (dotIndex - 1) : p[i] # "."
       THEN <<SubSeq(p, 1, dotIndex - 1), SubSeq(p, dotIndex, Len(p))>>
       ELSE <<p, <<>>>>

\* str.endswith
endswith(s, suffix) ==
    /\ Len(suffix) <= Len(s)
    /\ SubSeq(s, Len(s) - Len(suffix) + 1, Len(s)) = suffix

\* allowed_extensions, in both entry points
allowed_extensions ==
    {<<".", "j", "p", "g">>, <<".", "j", "p", "e", "g">>, <<".", "p", "n", "g">>,
     <<".", "b", "m", "p">>, <<".", "g", "i", "f">>, <<".", "w", "e", "b", "p">>}

\* the formats the /predict message names: jpg, jpeg, png, bmp, gif, webp
predict_detail_formats == {Tail(e) : e \in allowed_extensions}

\* /classify, lines 93-96: the file type test
classify_accepts(filename) == lower(splitext(filename)[2]) \in allowed_extensions

\* /predict, validate_file_type
validate_file_type(filename) ==
    \E ext \in allowed_extensions : endswith(lower(filename), ext)

\* uploaded names: a.jpg, a.JPG, .jpg, a.txt
FileNames ==
    {<<"a", ".", "j", "p", "g">>, <<"a", ".", "J", "P", "G">>,
     <<".", "j", "p", "g">>, <<"a", ".", "t", "x", "t">>}

\* bytes that no decoder recognises
NotAnImage ==
    [image |-> FALSE, intact |-> FALSE, mode |-> "none", width |-> 0, height |-> 0,
     scores |-> [i \in Classes |-> 0]]

\* uploaded bytes: an image (given by its score vector) or bytes that are no image
Contents ==
    {[image |-> TRUE, intact |-> TRUE, mode |-> "RGB", width |-> 640, height |-> 480,
      scores |-> x] : x \in Images}
        \cup {NotAnImage}

\* imagenet_classes.txt as read by ImageClassifier.predict
categories == class_names

\* ------------------------------------------------------------- responses
\* HTTPException(status_code, detail)
HTTPException(status, detail) == [status |-> status, body |-> [detail |-> detail]]

\* /classify, lines 97-100
classify_rejection(file_ext) ==
    HTTPException(400, [message |-> "unsupported_format", ext |-> file_ext,
                        formats |-> allowed_extensions])

\* /predict, lines 53-56
predict_rejection ==
    HTTPException(400, [message |-> "unsupported_type", ext |-> <<>>,
                        formats |-> predict_detail_formats])

\* a failure of the try block reported as a client error
failure_as_400(cause) ==
    HTTPException(400, [message |-> "processing_failed", cause |-> cause])

\* the 500 of the "except Exception" of either entry point; cause is str(e)
failure(cause) ==
    HTTPException(500, [message |-> "processing_failed", cause |-> cause])

\* a prediction confidence rounded to fewer digits than the list's
classify_response_coarse(filename, class_name, confidence, top_k_results) ==
    [status |-> 200,
     body |-> [success |-> TRUE,
               filename |-> filename,
               prediction |-> [class_name |-> class_name,
                               confidence |-> 10 * (round(confidence) \div 10)],
               top_k |-> [j \in 1 .. Len(top_k_results) |->
                             [class_name |-> top_k_results[j].class_name,
                              confidence |-> round(top_k_results[j].confidence)]]]]

\* /classify, lines 116-130
classify_response(filename, class_name, confidence, top_k_results) ==
    [status |-> 200,
     body |-> [success |-> TRUE,
               filename |-> filename,
               prediction |-> [class_name |-> class_name,
                               confidence |-> round(confidence)],
               top_k |-> [j \in 1 .. Len(top_k_results) |->
                             [class_name |-> top_k_results[j].class_name,
                              confidence |-> round(top_k_results[j].confidence)]]]]

\* ImageClassifier.predict, lines 48-63, as returned by JSONResponse
predict_response(probabilities, top5_catid) ==
    [status |-> 200,
     body |-> [predictions |-> [j \in 1 .. Len(top5_catid) |->
                                   [class |-> categories[top5_catid[j]],
                                    confidence |-> probabilities[top5_catid[j]]]],
               top_prediction |-> [class |-> categories[top5_catid[1]],
                                   confidence |-> probabilities[top5_catid[1]]]]]

\* -------------------------------------------------------- the endpoints
\* Both handlers are coroutines whose only suspension point is
\* "await file.read()": the validation runs when the request arrives, and
\* everything after the read runs without interruption by another request.
Endpoints == {"classify", "predict"}
NoResponse == [status |-> 0, body |-> [detail |-> <<>>]]

\* the upload has been consumed once the response is built
Consumed == NotAnImage

\* a handler that reads the upload before it tests the file name
Arrive_read_first(r, endpoint, filename, content, accepted, rejection) ==
    req' = [req EXCEPT ![r] =
               [pc |-> IF accepted THEN "reading" ELSE "done",
                endpoint |-> endpoint, has_file |-> TRUE, filename |-> filename,
                content |-> IF accepted THEN content ELSE Consumed,
                steps |-> <<"read", "validate">>,
                response |-> IF accepted THEN NoResponse ELSE rejection]]

\* steps lists what the handler ran for the request, in order
Arrive(r, endpoint, filename, content, accepted, rejection) ==
    req' = [req EXCEPT ![r] =
               [pc |-> IF accepted THEN "reading" ELSE "done",
                endpoint |-> endpoint, has_file |-> TRUE, filename |-> filename,
                content |-> IF accepted THEN content ELSE Consumed,
                steps |-> <<"validate">>,
                response |-> IF accepted THEN NoResponse ELSE rejection]]

Respond(r, response, steps) ==
    req' = [req EXCEPT ![r].pc = "done", ![r].content = Consumed,
                       ![r].steps = @ \o steps, ![r].response = response]

\* the steps one adapter call ran: "load" per constructor invocation, then
\* the forward pass when the network was invoked
AdapterSteps(o, forward) ==
    [i \in 1 .. o.ctor |-> "load"] \o (IF o.invoked.set THEN <<forward>> ELSE <<>>)

\* What the environment may make fail in one request: nothing, the read of
\* the upload, a step of the load (when the request is the one that loads),
\* or a forward pass.  The first failure ends the request, so one choice per
\* request covers every combination.
ClassifyFaults(isSet) ==
    {"none", "read", "predict", "predict_top_k"}
        \cup (IF isSet THEN {} ELSE LoadFailures \ {"none"})
PredictFaults(isSet) ==
    {"none", "read", "inference", "categories"}
        \cup (IF isSet THEN {} ELSE LoadFailures \ {"none"})
LoadFault(fault) == IF fault \in LoadFailures THEN fault ELSE "none"

\* /classify, lines 102-136: the outcomes of the try block
classify_try(m, n, filename, image_bytes, fault) ==
    IF fault = "read"
    THEN {[model |-> m, ctor |-> 0, steps |-> <<"read">>, response |-> failure("read")]}
    ELSE LET p == process_from_bytes(image_bytes)
         IN IF p.raised
            THEN {[model |-> m, ctor |-> 0, steps |-> <<"read", "decode">>,
                   response |-> failure("decode")]}
            ELSE UNION {
                   IF o1.raised
                   THEN {[model |-> o1.model, ctor |-> o1.ctor,
                          steps |-> <<"read", "decode">> \o AdapterSteps(o1, "predict"),
                          response |-> failure(IF o1.invoked.set THEN "inference"
                                               ELSE "load")]}
                   ELSE {[model |-> o2.model, ctor |-> o1.ctor + o2.ctor,
                          steps |-> <<"read", "decode">> \o AdapterSteps(o1, "predict")
                                       \o AdapterSteps(o2, "predict_top_k"),
                          response |->
                             IF o2.raised THEN failure("inference")
                             ELSE classify_response(filename, o1.ret.class_name,
                                                    o1.ret.confidence, o2.ret)] :
                         o2 \in predict_top_k(o1.model, n + o1.ctor, p.tensor, TopK,
                                              LoadFault(fault),
                                              fault = "predict_top_k")} :
                   o1 \in predict(m, n, p.tensor, LoadFault(fault), fault = "predict")}

\* POST /classify arrives: lines 92-100
ClassifyStart(r) ==
    /\ req[r].pc = "idle"
    /\ \E filename \in FileNames, content \in Contents :
         Arrive(r, "classify", filename, content, classify_accepts(filename),
                classify_rejection(lower(splitext(filename)[2])))
    /\ UNCHANGED <<image_processor, model, ctorCalls, ctorOk, classifier_instance, clsCtorCalls,
                   clsCtorOk, call, thr>>

\* POST /classify after the read: lines 104-136
ClassifyResume(r) ==
    /\ req[r].pc = "reading" /\ req[r].endpoint = "classify"
    /\ model.set \/ ctorCalls < MaxCtorCalls
    /\ \E fault \in ClassifyFaults(model.set) :
         \E o \in classify_try(model, ctorCalls + 1, req[r].filename, req[r].content,
                               fault) :
            /\ model' = o.model
            /\ ctorCalls' = ctorCalls + o.ctor
            /\ ctorOk' = ctorOk + Returned(o.ctor, o.model.set)
            /\ Respond(r, o.response, o.steps)
    /\ UNCHANGED <<image_processor, classifier_instance, clsCtorCalls, clsCtorOk, call, thr>>

\* /predict, lines 58-67, with ImageClassifier.predict: the outcomes of the
\* try block
predict_try(inst, n, image_bytes, fault) ==
    IF fault = "read"
    THEN {[instance |-> inst, ctor |-> 0, steps |-> <<"read">>,
           response |-> failure("read")]}
    ELSE LET g == get_classifier(inst, n, LoadFault(fault))
             probabilities == softmax(image_bytes.scores)
             cause == IF g.raised THEN "load"
                      ELSE IF ~image_bytes.image THEN "decode"
                      ELSE IF fault = "inference" THEN "inference"
                      ELSE IF fault = "categories" THEN "categories"
                      ELSE IF topk(probabilities, TopK) = {} THEN "topk"
                      ELSE "none"
             \* lines 60-48 in the order they run: get_classifier, Image.open,
             \* the forward pass, open('imagenet_classes.txt'), torch.topk
             order == <<"decode", "inference", "categories", "topk">>
             ran == IF cause = "load" THEN <<>>
                    ELSE IF cause = "none" THEN order
                    ELSE SubSeq(order, 1, CHOOSE i \in 1 .. Len(order) : order[i] = cause)
             steps == <<"read">> \o [i \in 1 .. g.ctor |-> "load"] \o ran
         IN IF cause # "none"
            THEN {[instance |-> g.instance, ctor |-> g.ctor, steps |-> steps,
                   response |-> failure(cause)]}
            ELSE {[instance |-> g.instance, ctor |-> g.ctor, steps |-> steps,
                   response |-> predict_response(probabilities, t)] :
                  t \in topk(probabilities, TopK)}

\* POST /predict arrives: lines 46-56
PredictStart(r) ==
    /\ req[r].pc = "idle"
    /\ \E filename \in FileNames, content \in Contents :
         Arrive(r, "predict", filename, content, validate_file_type(filename),
                predict_rejection)
    /\ UNCHANGED <<image_processor, model, ctorCalls, ctorOk, classifier_instance, clsCtorCalls,
                   clsCtorOk, call, thr>>

\* POST /predict after the read: lines 59-67
PredictResume(r) ==
    /\ req[r].pc = "reading" /\ req[r].endpoint = "predict"
    /\ classifier_instance.set \/ clsCtorCalls < MaxCtorCalls
    /\ \E fault \in PredictFaults(classifier_instance.set) :
         \E o \in predict_try(classifier_instance, clsCtorCalls + 1, req[r].content,
                              fault) :
            /\ classifier_instance' = o.instance
            /\ clsCtorCalls' = clsCtorCalls + o.ctor
            /\ clsCtorOk' = clsCtorOk + Returned(o.ctor, o.instance.set)
            /\ Respond(r, o.response, o.steps)
    /\ UNCHANGED <<image_processor, model, ctorCalls, ctorOk, call, thr>>

\* a 422 answered as a client error of another kind
RequestValidationError_400 ==
    [status |-> 400, body |-> [detail |-> [message |-> "field_required", loc |-> "file"]]]

\* file: UploadFile = File(...): the field is required, and the framework
\* answers a request without it before the handler is entered
RequestValidationError ==
    [status |-> 422, body |-> [detail |-> [message |-> "field_required", loc |-> "file"]]]

\* POST /classify or POST /predict arrives without a file field
MissingFile(r) ==
    /\ req[r].pc = "idle"
    /\ \E endpoint \in Endpoints :
         req' = [req EXCEPT ![r] =
                    [pc |-> "done", endpoint |-> endpoint, has_file |-> FALSE,
                     filename |-> <<>>, content |-> Consumed, steps |-> <<>>,
                     response |-> RequestValidationError]]
    /\ UNCHANGED <<image_processor, model, ctorCalls, ctorOk, classifier_instance,
                   clsCtorCalls, clsCtorOk, call, thr>>

\* the response has been sent
Finish(r) ==
    /\ req[r].pc = "done"
    /\ req' = [req EXCEPT ![r] = IdleRequest]
    /\ UNCHANGED <<image_processor, model, ctorCalls, ctorOk, classifier_instance, clsCtorCalls,
                   clsCtorOk, call, thr>>

Init == InitService /\ call = NoCall
Next ==
    \E r \in Requests :
        \/ ClassifyStart(r)
        \/ ClassifyResume(r)
        \/ PredictStart(r)
        \/ PredictResume(r)
        \/ MissingFile(r)
        \/ Finish(r)
Spec == Init /\ [][Next]_vars

\* ------------------------------------- tensors of any shape, passed directly
\* the shape of the tensors the tests pass and preprocess_image returns
InputShape == <<1, NormalizeChannels, CropSize, CropSize>>

\* shapes a caller may pass: the expected one, a smaller image, an unbatched
\* tensor, a one-channel tensor, a batch of two
Shapes ==
    {InputShape, <<1, 3, 100, 100>>, <<3, 224, 224>>, <<1, 1, 224, 224>>,
     <<2, 3, 224, 224>>}

Tensors == {[shape |-> sh, scores |-> x] : sh \in Shapes, x \in Images}

\* self.model(image_tensor): the first convolution and the batch
\* normalisation raise on a tensor that is not batch x 3 x height x width;
\* every other shape runs through (adaptive pooling, outputs[0])
forward_raises(shape) == Len(shape) # 4 \/ shape[2] # NormalizeChannels

\* model_loader.predict(x) / model_loader.predict_top_k(x, k) on a tensor of
\* any shape
TensorCall(op, x, k) ==
    /\ model.set \/ ctorCalls < MaxCtorCalls
    /\ \E fail \in FailuresFor(model.set), inferFail \in {forward_raises(x.shape), TRUE} :
         \E o \in (IF op = "predict"
                   THEN predict(model, ctorCalls + 1, x.scores, fail, inferFail)
                   ELSE predict_top_k(model, ctorCalls + 1, x.scores, k, fail, inferFail)) :
            /\ model' = o.model
            /\ ctorCalls' = ctorCalls + o.ctor
            /\ ctorOk' = ctorOk + Returned(o.ctor, o.model.set)
            /\ call' = [op |-> op, shape |-> x.shape, tensor |-> x.scores, k |-> k,
                        wasSet |-> model.set, ctor |-> o.ctor, raised |-> o.raised,
                        invoked |-> o.invoked, top |-> o.top,
                        ret |-> IF o.raised THEN <<>>
                                ELSE IF op = "predict" THEN <<o.ret>> ELSE o.ret]
    /\ UNCHANGED <<image_processor, classifier_instance, clsCtorCalls, clsCtorOk, req, thr>>

TensorPredict == \E x \in Tensors : TensorCall("predict", x, 1)
TensorPredictTopK == \E x \in Tensors : TensorCall("predict_top_k", x, TopK)

InitTensor == InitService /\ call = NoCall
NextTensor == TensorPredict \/ TensorPredictTopK
TensorSpec == InitTensor /\ [][NextTensor]_vars

\* ------------------------------------ direct calls of the image processor
\* byte strings handed to the processor: an intact image of each mode, an
\* image whose pixel data are cut off (stored as RGB and as L), and bytes
\* that are no image
ImageBytes ==
    {[image |-> TRUE, intact |-> TRUE, mode |-> m, width |-> 100, height |-> 300,
      scores |-> <<>>] : m \in Modes}
        \cup {[image |-> TRUE, intact |-> FALSE, mode |-> m, width |-> 100,
               height |-> 300, scores |-> <<>>] : m \in {"RGB", "L"}}
        \cup {NotAnImage}

\* what a process_from_bytes call gave its caller
Outcome(o) == [raised |-> o.raised, kind |-> o.kind, result |-> o.result]

\* the last call of a processor method; seen maps the byte strings passed
\* to process_from_bytes so far to what the first call with them gave
NoProcCall ==
    [op |-> "none", arg |-> <<>>, raised |-> FALSE, kind |-> "none", image |-> NoImage,
     result |-> NoTensor, repeat |-> FALSE, seen |-> <<>>]

\* image_processor.load_image_from_bytes(b)
LoadFromBytes ==
    /\ \E b \in ImageBytes :
         LET o == load_image_from_bytes(b)
         IN call' = [NoProcCall EXCEPT !.op = "load_image_from_bytes", !.arg = b,
                                       !.raised = o.raised, !.kind = o.kind,
                                       !.image = o.image, !.seen = call.seen]
    /\ UNCHANGED <<image_processor, model, ctorCalls, ctorOk, classifier_instance,
                   clsCtorCalls, clsCtorOk, req, thr>>

\* image_processor.load_image_from_path(p)
LoadFromPath ==
    /\ \E p \in Paths :
         LET o == load_image_from_path(p)
         IN call' = [NoProcCall EXCEPT !.op = "load_image_from_path", !.arg = p,
                                       !.raised = o.raised, !.kind = o.kind,
                                       !.image = o.image, !.seen = call.seen]
    /\ UNCHANGED <<image_processor, model, ctorCalls, ctorOk, classifier_instance,
                   clsCtorCalls, clsCtorOk, req, thr>>

\* image_processor.preprocess_image(image), on an opened image of any mode
PreprocessImage ==
    /\ \E b \in {x \in ImageBytes : x.image} :
         LET o == preprocess_image(open(b).image)
         IN call' = [NoProcCall EXCEPT !.op = "preprocess_image", !.arg = b,
                                       !.raised = o.raised, !.kind = o.kind,
                                       !.image = open(b).image, !.result = o.tensor,
                                       !.seen = call.seen]
    /\ UNCHANGED <<image_processor, model, ctorCalls, ctorOk, classifier_instance,
                   clsCtorCalls, clsCtorOk, req, thr>>

\* image_processor.process_from_bytes(b)
ProcessFromBytes ==
    /\ \E b \in ImageBytes :
         LET o == process_from_bytes(b)
         IN /\ image_processor' = o.self
            /\ call' = [op |-> "process_from_bytes", arg |-> b, raised |-> o.raised,
                        kind |-> o.kind, image |-> o.loaded, result |-> o.result,
                        repeat |-> b \in DOMAIN call.seen,
                        seen |-> IF b \in DOMAIN call.seen THEN call.seen
                                 ELSE (b :> Outcome(o)) @@ call.seen]
    /\ UNCHANGED <<model, ctorCalls, ctorOk, classifier_instance, clsCtorCalls,
                   clsCtorOk, req, thr>>

\* image_processor.process_from_path(p)
ProcessFromPath ==
    /\ \E p \in Paths :
         LET o == process_from_path(p)
         IN /\ image_processor' = o.self
            /\ call' = [NoProcCall EXCEPT !.op = "process_from_path", !.arg = p,
                                          !.raised = o.raised, !.kind = o.kind,
                                          !.image = o.loaded, !.result = o.result,
                                          !.seen = call.seen]
    /\ UNCHANGED <<model, ctorCalls, ctorOk, classifier_instance, clsCtorCalls,
                   clsCtorOk, req, thr>>

InitProc == InitService /\ call = NoProcCall
NextProc ==
    \/ LoadFromBytes
    \/ LoadFromPath
    \/ PreprocessImage
    \/ ProcessFromBytes
    \/ ProcessFromPath
ProcSpec == InitProc /\ [][NextProc]_vars

\* --------------------------------- the preprocessing as a function of size
\* an intact image of every mode, width and height is decoded, resized and
\* preprocessed once
Sides == (1 .. MaxSide) \cup {SideStep * s : s \in 1 .. MaxSide}

InitResize ==
    /\ InitService
    /\ \E m \in Modes, w \in Sides, h \in Sides :
         call = [NoProcCall EXCEPT
                    !.op = "input",
                    !.arg = [image |-> TRUE, intact |-> TRUE, mode |-> m, width |-> w,
                             height |-> h, scores |-> <<>>]]

\* the first step of self.transform, applied to the decoded image
ResizeImage ==
    /\ call.op = "input"
    /\ LET l == load_image_from_bytes(call.arg)
       IN call' = [call EXCEPT !.op = "Resize", !.raised = l.raised, !.kind = l.kind,
                               !.image = IF l.raised THEN NoImage
                                         ELSE Resize(image_processor.transform.Resize,
                                                     l.image)]
    /\ UNCHANGED <<image_processor, model, ctorCalls, ctorOk, classifier_instance,
                   clsCtorCalls, clsCtorOk, req, thr>>

\* image_processor.process_from_bytes on the input
ProcessImage ==
    /\ call.op = "input"
    /\ LET o == process_from_bytes(call.arg)
       IN /\ image_processor' = o.self
          /\ call' = [call EXCEPT !.op = "process_from_bytes", !.raised = o.raised,
                                  !.kind = o.kind, !.image = o.loaded,
                                  !.result = o.result]
    /\ UNCHANGED <<model, ctorCalls, ctorOk, classifier_instance, clsCtorCalls,
                   clsCtorOk, req, thr>>

NextResize == ResizeImage \/ ProcessImage
ResizeSpec == InitResize /\ [][NextResize]_vars

\* =================================================================== claims

\* the handle and the cached instance are only ever set once
HandleKept ==
    /\ model.set => model'.set /\ model'.id = model.id
    /\ classifier_instance.set => classifier_instance' = classifier_instance

\* C1 as stated: over any sequential mix of load_model, predict and
\* predict_top_k calls the underlying model constructor is invoked at most
\* once, and get_classifier constructs ImageClassifier at most once.
C1_AsStated == ctorCalls <= 1 /\ clsCtorCalls <= 1

\* C1 amended: over any sequential mix of calls the underlying constructor
\* returns at most once (an invocation that raised left the handle None, and
\* the next call invokes it again); once the handle is set it is never
\* replaced or reset; get_classifier likewise completes ImageClassifier() at
\* most once and every call that returns, returns the one cached instance.
C1_LoadOnce ==
    [][/\ ctorOk' <= 1
       /\ clsCtorOk' <= 1
       /\ HandleKept
       /\ (call'.op = "get_classifier" /\ ~call'.raised)
            => call'.ret = <<classifier_instance'>> /\ classifier_instance'.set
       /\ (ctorCalls' > ctorCalls => ~model.set)
       /\ (clsCtorCalls' > clsCtorCalls => ~classifier_instance.set)]_vars

\* a second load_model on a loaded ModelLoader, and a second get_classifier
C1_Witness ==
    /\ model.set /\ ctorOk = 1 /\ classifier_instance.set
    /\ call.op \in {"load_model", "get_classifier"} /\ call.wasSet /\ ~call.raised

\* C3: predict or predict_top_k called on a ModelLoader whose model is not
\* loaded, and returning, made exactly one underlying initialization, ran the
\* network on the handle it loaded (set, in evaluation mode, on the device),
\* and leaves the model loaded.
C3_ImplicitLoad ==
    (call.op \in {"predict", "predict_top_k"} /\ ~call.wasSet /\ ~call.raised)
        => /\ call.ctor = 1
           /\ call.invoked.set /\ call.invoked.evalMode /\ call.invoked.onDevice
           /\ model.set /\ model.id = call.invoked.id

C3_Witness ==
    /\ call.op = "predict_top_k" /\ ~call.wasSet /\ ~call.raised
    /\ model.set /\ Len(call.ret) = TopK

\* the softmax probabilities of the score vector of the last call
CallProbs == softmax(call.tensor)
Returned_top_k == call.op = "predict_top_k" /\ ~call.raised
TopSet == {call.top[j] : j \in 1 .. Len(call.top)}

\* C4: for every score vector and every k with 1 <= k <= number of classes,
\* predict_top_k returns exactly k entries, these are k distinct classes none
\* of which has a lower probability than a class left out, every confidence
\* lies in [0,1], and confidences are non-increasing along the list.
C4_TopK ==
    (Returned_top_k /\ 1 <= call.k /\ call.k <= NumClasses)
        => /\ Len(call.ret) = call.k
           /\ Len(call.top) = call.k
           /\ Cardinality(TopSet) = call.k
           /\ \A j \in 1 .. call.k :
                /\ call.ret[j].confidence = CallProbs[call.top[j]]
                /\ call.ret[j].class_name = class_names[call.top[j]]
                /\ 0 <= call.ret[j].confidence.num
                /\ call.ret[j].confidence.num <= call.ret[j].confidence.den
                /\ \A c \in Classes \ TopSet :
                     ProbLeq(CallProbs[c], call.ret[j].confidence)
           /\ \A j \in 1 .. (call.k - 1) :
                ProbLeq(call.ret[j + 1].confidence, call.ret[j].confidence)

\* a returned list with a strict descent and a class left out
C4_Witness ==
    /\ Returned_top_k /\ call.k = 3 /\ Len(call.ret) = 3
    /\ ~ProbEq(call.ret[1].confidence, call.ret[3].confidence)

\* C5: in the list predict_top_k returns, entries with equal confidence
\* appear in ascending order of class index, and a class left out that ties
\* with the last entry has a higher index than it.
C5_StableTies ==
    Returned_top_k
        => /\ \A i, j \in 1 .. Len(call.top) :
                (i < j /\ ProbEq(CallProbs[call.top[i]], CallProbs[call.top[j]]))
                    => call.top[i] < call.top[j]
           /\ \A c \in Classes \ TopSet :
                \A j \in 1 .. Len(call.top) :
                    ProbEq(CallProbs[c], CallProbs[call.top[j]]) => call.top[j] < c

\* C6: predict returns a class whose softmax probability is the maximum over
\* all classes, that maximum as confidence, and the catalog entry at exactly
\* that class index as label.
C6_Top1 ==
    (call.op = "predict" /\ ~call.raised)
        => /\ Len(call.top) = 1
           /\ \A c \in Classes : ProbLeq(CallProbs[c], call.ret[1].confidence)
           /\ call.ret[1].confidence = CallProbs[call.top[1]]
           /\ call.ret[1].class_name = class_names[call.top[1]]

\* predict returned for a vector whose maximum is not at class 0
C6_Witness ==
    /\ call.op = "predict" /\ ~call.raised
    /\ call.top[1] = 3
    /\ \E c \in Classes : ~ProbEq(CallProbs[c], call.ret[1].confidence)

\* C2: when two or more callers concurrently make the first call that needs
\* the model, the underlying model is never initialized more than once
\* (neither mobilenet_v2 for the ModelLoader nor ImageClassifier() for
\* get_classifier completes twice).
C2_SingleInit == ctorOk <= 1 /\ clsCtorOk <= 1

\* ------------------------------------------------------------ requests
Answered(r) == req[r].pc = "done"
Status(r) == req[r].response.status
Body(r) == req[r].response.body
Ok(r, endpoint) == Answered(r) /\ req[r].endpoint = endpoint /\ Status(r) = 200

\* C7: every successful POST /classify response has a top_k list of exactly
\* 5 entries whose 4-decimal-rounded confidences lie in [0,1] and are
\* non-increasing, and prediction.confidence equals top_k[0].confidence.
C7_ClassifyResponse ==
    \A r \in Requests :
        Ok(r, "classify")
            => /\ Len(Body(r).top_k) = 5
               /\ \A j \in 1 .. 5 :
                    /\ 0 <= Body(r).top_k[j].confidence
                    /\ Body(r).top_k[j].confidence <= Pow10(RoundDigits)
               /\ \A j \in 1 .. 4 :
                    Body(r).top_k[j + 1].confidence <= Body(r).top_k[j].confidence
               /\ Body(r).prediction.confidence = Body(r).top_k[1].confidence

\* a successful /classify response whose list descends strictly somewhere
C7_Witness ==
    \E r \in Requests :
        /\ Ok(r, "classify")
        /\ Body(r).top_k[5].confidence < Body(r).top_k[1].confidence
        /\ Body(r).prediction.confidence > 0

\* the extension of a file name as C8 reads it: the part from the last dot on
\* (the name ".jpg" consists of its extension only)
Extension(filename) ==
    IF rfind(filename, ".") = 0 THEN <<>>
    ELSE SubSeq(filename, rfind(filename, "."), Len(filename))

PassedValidation(r) ==
    req[r].pc = "reading" \/ (Answered(r) /\ Status(r) # 400)

\* C8: an upload to /classify or /predict passes file-type validation if and
\* only if the extension of its file name, compared case-insensitively, is
\* one of .jpg .jpeg .png .bmp .gif .webp; every other file name is rejected
\* with HTTP 400 and a detail naming the supported formats.
C8_ExtensionRule ==
    \A r \in Requests :
        (req[r].pc # "idle" /\ req[r].has_file)
            => /\ PassedValidation(r)
                    <=> lower(Extension(req[r].filename)) \in allowed_extensions
               /\ ~PassedValidation(r)
                    => /\ Status(r) = 400
                       /\ \E f \in Body(r).detail.formats :
                            f \in {<<".", "j", "p", "g">>, <<"j", "p", "g">>}

\* the adapter of an endpoint is completely loaded
Loaded(endpoint, m, inst) ==
    IF endpoint = "classify" THEN m.set /\ m.evalMode /\ m.onDevice ELSE inst.set

\* C9: a request that passed extension validation and then fails while
\* reading, decoding, loading the model or running inference is answered
\* with HTTP 500 and a detail message, in /classify and /predict alike: the
\* answer is 200 only for an image and with the adapter loaded, bytes that
\* are no image are answered 500, and every other answer is a 500 with a
\* detail.
C9_Failure500 ==
    [][\A r \in Requests :
          (req[r].pc = "reading" /\ req'[r].pc = "done")
              => /\ req'[r].response.status \in {200, 500}
                 /\ ~req[r].content.image => req'[r].response.status = 500
                 /\ req'[r].response.status = 200
                      => Loaded(req[r].endpoint, model', classifier_instance')
                 /\ req'[r].response.status = 500
                      => /\ DOMAIN req'[r].response.body = {"detail"}
                         /\ req'[r].response.body.detail.message = "processing_failed"
                         /\ req'[r].response.body.detail.cause \in
                               {"read", "decode", "load", "inference", "categories"}]_vars

\* bytes that are no image, uploaded as a.jpg, answered 500
C9_Witness ==
    \E r \in Requests :
        /\ Answered(r) /\ Status(r) = 500
        /\ req[r].filename = <<"a", ".", "j", "p", "g">>
        /\ Body(r).detail.cause = "decode"

C11_ShapeChecked ==
    (call.op \in {"predict", "predict_top_k"} /\ call.shape # InputShape)
        => call.raised /\ ~call.invoked.set

\* ------------------------------------------------------ image processor
Min(a, b) == IF a <= b THEN a ELSE b
Max(a, b) == IF a <= b THEN b ELSE a

\* C12: for every intact image of any width and height >= 1 and any colour
\* mode, decoding and preprocessing return a tensor of shape exactly
\* (1,3,224,224), and the centre crop lies inside the resized image (nothing
\* is padded).
C12_Shape ==
    (call.op = "process_from_bytes" /\ call.arg.image /\ call.arg.intact)
        => /\ ~call.raised
           /\ call.result.shape = <<1, 3, 224, 224>>
           /\ ~call.result.padded

\* a one-pixel-wide RGBA image, several hundred pixels high
C12_Witness ==
    /\ call.op = "process_from_bytes" /\ ~call.raised
    /\ call.arg.width = 1 /\ call.arg.height > 500 /\ call.arg.mode = "RGBA"
    /\ call.result.shape = <<1, 3, 224, 224>>

\* a call of one of the two loaders, and the byte string it read
LoaderCall == call.op \in {"load_image_from_bytes", "load_image_from_path"}
Exists == call.op = "load_image_from_bytes" \/ call.arg \in DOMAIN FileSystem
Source == IF call.op = "load_image_from_bytes" THEN call.arg ELSE FileSystem[call.arg]

\* C13: every image load_image_from_bytes or load_image_from_path returns
\* has mode RGB and the size of the source, whatever the mode of the source,
\* and the loaders do not raise on an intact image of a supported mode.
C13_AlwaysRGB ==
    LoaderCall
        => /\ ~call.raised
                => /\ call.image.mode = "RGB"
                   /\ getbands(call.image.mode) = 3
                   /\ call.image.width = Source.width
                   /\ call.image.height = Source.height
           /\ (Exists /\ Source.image /\ Source.intact /\ Source.mode \in Modes)
                => ~call.raised

\* a palette image loaded from bytes
C13_Witness ==
    /\ call.op = "load_image_from_bytes" /\ ~call.raised
    /\ call.arg.mode = "P" /\ call.image.mode = "RGB"

\* C14: loading from a path that does not exist fails with a file-not-found
\* error; bytes or a file that are not a recognised image fail with an error
\* of another kind; in neither case is an image returned.
C14_ErrorKinds ==
    LoaderCall
        => /\ ~Exists
                => /\ call.raised /\ call.kind = "FileNotFoundError"
                   /\ call.image = NoImage
           /\ (Exists /\ ~Source.image)
                => /\ call.raised /\ call.kind \notin {"FileNotFoundError", "none"}
                   /\ call.image = NoImage

\* an existing file that is no image, loaded by path
C14_Witness ==
    /\ call.op = "load_image_from_path" /\ call.arg = "notes.jpg"
    /\ call.raised /\ call.kind = "UnidentifiedImageError"

\* C15: a call of process_from_bytes leaves the ImageProcessor as it was, and
\* gives what the first call with the same bytes gave (the same tensor, or
\* the same error), whatever was processed in between.
C15_Pure ==
    [][call'.op = "process_from_bytes"
         => /\ image_processor' = image_processor
            /\ call'.arg \in DOMAIN call.seen
                 => Outcome(call') = call.seen[call'.arg]]_vars

\* the same bytes processed again after two other byte strings
C15_Witness ==
    /\ call.op = "process_from_bytes" /\ call.repeat /\ ~call.raised
    /\ Cardinality(DOMAIN call.seen) >= 3

Count(st, x) == Cardinality({i \in 1 .. Len(st) : st[i] = x})
Last(st) == st[Len(st)]
\* the steps whose failure a 500 detail with this cause reports
FailedSteps(cause) ==
    IF cause = "inference" THEN {"predict", "predict_top_k", "inference"} ELSE {cause}

\* C16: within one request no step runs twice (the upload is decoded at most
\* once and the model is loaded at most once), and a request answered 500
\* stopped at the step that failed: nothing ran after it.
C16_NoRetry ==
    \A r \in Requests :
        (Answered(r) /\ req[r].has_file)
            => /\ \A i \in 1 .. Len(req[r].steps) : Count(req[r].steps, req[r].steps[i]) = 1
               /\ Status(r) = 400 => req[r].steps = <<"validate">>
               /\ Status(r) = 500
                    => Last(req[r].steps) \in FailedSteps(Body(r).detail.cause)
               /\ Status(r) = 200
                    => Last(req[r].steps) \in {"predict_top_k", "topk"}

\* a /classify request whose model load failed: nothing ran after the load
C16_Witness ==
    \E r \in Requests :
        /\ Answered(r) /\ Status(r) = 500 /\ Body(r).detail.cause = "load"
        /\ req[r].steps = <<"validate", "read", "decode", "load">>

\* C17: the class-label catalog is loaded once at process start and never
\* reloaded: no request reads it again, and every label in a response is an
\* entry of that catalog.
C17_CatalogFixed ==
    \A r \in Requests :
        Answered(r)
            => /\ Count(req[r].steps, "categories") = 0
               /\ Ok(r, "classify")
                    => \A j \in 1 .. Len(Body(r).top_k) :
                          \E c \in Classes : Body(r).top_k[j].class_name = class_names[c]
               /\ Ok(r, "predict")
                    => \A j \in 1 .. Len(Body(r).predictions) :
                          \E c \in Classes : Body(r).predictions[j].class = class_names[c]

\* C18: a POST to /classify or /predict without a file field is answered
\* 422 at once, and nothing is validated, decoded, loaded or inferred for it.
C18_MissingFile ==
    [][\A r \in Requests :
          (req[r].pc = "idle" /\ req'[r].pc # "idle" /\ ~req'[r].has_file)
              => /\ req'[r].pc = "done"
                 /\ req'[r].response.status = 422
                 /\ DOMAIN req'[r].response.body = {"detail"}
                 /\ req'[r].steps = <<>>
                 /\ UNCHANGED <<model, ctorCalls, classifier_instance, clsCtorCalls,
                                image_processor>>]_vars

\* a /predict request without a file, answered 422
C18_Witness ==
    \E r \in Requests :
        /\ Answered(r) /\ ~req[r].has_file /\ req[r].endpoint = "predict"
        /\ Status(r) = 422

\* the index sequences the call of thread record c may return when it is the
\* only call running
AloneTops(c) ==
    {o.top : o \in {x \in (IF c.op = "predict"
                           THEN predict(model, ctorCalls + 1, c.tensor, "none", FALSE)
                           ELSE predict_top_k(model, ctorCalls + 1, c.tensor, c.k,
                                              "none", FALSE)) : ~x.raised}}

\* C20: once the model is loaded, no step of a predict or predict_top_k
\* call running concurrently with other calls changes the shared model or
\* invokes the constructor, and under every interleaving a call that
\* returns, returns a result the same call returns when it runs alone.
C20_ReadOnlyInference ==
    [][(model.set /\ model.evalMode /\ model.onDevice)
         => \A t \in Threads :
               (thr[t].pc # "idle" /\ thr[t].op \in {"predict", "predict_top_k"}
                    /\ thr'[t] # thr[t])
                   => /\ model' = model
                      /\ ctorCalls' = ctorCalls
                      /\ (thr[t].pc = "predict_forward" /\ thr'[t].pc = "done"
                              /\ ~thr'[t].raised)
                            => thr'[t].top \in AloneTops(thr[t])]_vars

\* ---------------------------------------------------------- GET /health
\* a health check that answers by the readiness of the adapter of its app
health_check_readiness(app) ==
    IF Loaded(app, model, classifier_instance)
    THEN [status |-> 200, body |-> [status |-> "healthy"]]
    ELSE [status |-> 503, body |-> [status |-> "loading"]]

\* health_check of the app serving /classify (app/main.py) and of the app
\* serving /predict (main.py): a constant body, nothing is read
health_check(app) ==
    [status |-> 200,
     body |-> IF app = "classify" THEN [status |-> "healthy"]
              ELSE [status |-> "healthy", service |-> "image-classification-api"]]

\* GET /health arrives at one of the two apps and is answered
HealthCheck(r) ==
    /\ req[r].pc = "idle"
    /\ \E app \in Endpoints :
         req' = [req EXCEPT ![r] =
                    [pc |-> "done", endpoint |-> "health", app |-> app,
                     has_file |-> FALSE, filename |-> <<>>, content |-> Consumed,
                     steps |-> <<>>, response |-> health_check(app)]]
    /\ UNCHANGED <<image_processor, model, ctorCalls, ctorOk, classifier_instance,
                   clsCtorCalls, clsCtorOk, call, thr>>

\* the upload endpoints together with the health checks
NextHealth == Next \/ \E r \in Requests : HealthCheck(r)
HealthSpec == Init /\ [][NextHealth]_vars

\* C21: GET /health is answered 200 with status "healthy" in whatever state
\* the service is (nothing loaded, loaded, a load that failed half way), and
\* answering it loads nothing and changes neither the adapters, the image
\* processor nor another request.
C21_Health ==
    [][\A r \in Requests :
          (req[r].pc = "idle" /\ req'[r].pc # "idle" /\ req'[r].endpoint = "health")
              => /\ req'[r].pc = "done"
                 /\ req'[r].response.status = 200
                 /\ req'[r].response.body.status = "healthy"
                 /\ req'[r].steps = <<>>
                 /\ UNCHANGED <<model, ctorCalls, ctorOk, classifier_instance,
                                clsCtorCalls, clsCtorOk, image_processor>>
                 /\ \A q \in Requests \ {r} : req'[q] = req[q]]_vars

\* a health check answered after a request whose model load failed half way
C21_Witness ==
    \E r \in Requests :
        /\ Answered(r) /\ req[r].endpoint = "health" /\ Status(r) = 200
        /\ Body(r).status = "healthy"
        /\ model.set /\ ~model.onDevice

\* ------------------------------------------------------------- softmax
\* C22: for every score vector the probabilities the adapter computes over
\* all classes add up to 1: the confidences of the full ranking
\* (k = number of classes) are fractions of one common positive denominator,
\* each between 0 and 1, whose numerators add up to that denominator.
C22_SumsToOne ==
    (Returned_top_k /\ call.k = NumClasses)
        => LET den == call.ret[1].confidence.den
               nums == [j \in 1 .. NumClasses |-> call.ret[j].confidence.num]
           IN /\ Len(call.ret) = NumClasses
              /\ den > 0
              /\ \A j \in 1 .. NumClasses :
                    /\ call.ret[j].confidence.den = den
                    /\ 0 <= nums[j] /\ nums[j] <= den
              /\ SumOver(nums, 1 .. NumClasses) = den

\* the full ranking of a vector whose scores are not all equal
C22_Witness ==
    /\ Returned_top_k /\ call.k = NumClasses /\ Len(call.ret) = NumClasses
    /\ ~ProbEq(call.ret[1].confidence, call.ret[NumClasses].confidence)

Forward(st) ==
    {i \in 1 .. Len(st) : st[i] \in {"predict", "predict_top_k", "inference"}}
Before(st, x, i) == \E j \in 1 .. (i - 1) : st[j] = x

\* C24: in every request the stages run in the order extension validation,
\* read, decode, inference, response, each only after the earlier ones
\* succeeded: validation is the first step, nothing is read before it,
\* nothing is decoded before the read, no forward pass runs before the
\* decode; a request rejected for its extension ran the validation only, a
\* request whose read failed decoded nothing, a request whose decode failed
\* ran no forward pass, and a 200 is sent only after all stages ran.
C24_StageOrder ==
    \A r \in Requests :
        (req[r].pc # "idle" /\ req[r].has_file)
            => LET st == req[r].steps
               IN /\ Len(st) >= 1 /\ st[1] = "validate"
                  /\ \A i \in 1 .. Len(st) :
                        /\ st[i] = "read" => i = 2
                        /\ st[i] = "decode" => Before(st, "read", i)
                        /\ i \in Forward(st) => Before(st, "decode", i)
                  /\ req[r].pc = "reading"
                        => st = <<"validate">> /\ req[r].response = NoResponse
                  /\ (Answered(r) /\ Status(r) = 400) => st = <<"validate">>
                  /\ (Answered(r) /\ Status(r) = 500)
                        => /\ Body(r).detail.cause = "read"
                                => Count(st, "decode") = 0 /\ Forward(st) = {}
                           /\ Body(r).detail.cause = "decode" => Forward(st) = {}
                  /\ (Answered(r) /\ Status(r) = 200)
                        => /\ Count(st, "read") = 1 /\ Count(st, "decode") = 1
                           /\ Forward(st) # {}

\* bytes that are no image sent to a fresh /predict: the classifier is
\* constructed, the decode fails, no forward pass runs
C24_Witness ==
    \E r \in Requests :
        /\ Answered(r) /\ req[r].endpoint = "predict" /\ Status(r) = 500
        /\ Body(r).detail.cause = "decode"
        /\ req[r].steps = <<"validate", "read", "load", "decode">>

\* ---------------------------------------------------------- failed loads
\* C25: a load that fails at any step (constructor, model.eval(),
\* model.to(device)) leaves the loader not loaded: after a call whose load
\* raised the model handle is None, after a get_classifier that raised no
\* instance is cached, and no call invokes a model that is not completely
\* initialized.
C25_FailedLoadUnloaded ==
    /\ (call.op \in {"load_model", "predict", "predict_top_k"} /\ ~call.wasSet
            /\ call.raised /\ ~call.invoked.set)
         => ~model.set
    /\ (call.op = "get_classifier" /\ call.raised) => ~classifier_instance.set
    /\ (call.op \in {"predict", "predict_top_k"} /\ call.invoked.set)
         => call.invoked.onDevice

\* ------------------------------------------- the two file-type rules
\* the file-type rule of the entry point a request was not sent to
OtherRule(endpoint, filename) ==
    IF endpoint = "classify" THEN validate_file_type(filename)
    ELSE classify_accepts(filename)

\* C26: /classify and /predict decide alike on every file name: a request
\* passes the validation of its entry point exactly if the rule of the other
\* entry point accepts its file name too, and is answered 400 otherwise (the
\* name ".jpg", which is an extension only, included).
C26_SameRule ==
    \A r \in Requests :
        (req[r].pc # "idle" /\ req[r].has_file)
            => /\ PassedValidation(r) <=> OtherRule(req[r].endpoint, req[r].filename)
               /\ ~PassedValidation(r) => Status(r) = 400

\* ------------------------------------------------------- k out of range
\* C27: predict_top_k called with k greater than the number of classes
\* raises and returns nothing (no clamped or shortened list); called with
\* k = 0 it returns the empty list when it returns; and every list it
\* returns has exactly k entries.
C27_KOutOfRange ==
    call.op = "predict_top_k"
        => /\ call.k > NumClasses => call.raised /\ call.ret = <<>>
           /\ (call.k = 0 /\ ~call.raised) => call.ret = <<>> /\ call.top = <<>>
           /\ ~call.raised => Len(call.ret) = call.k
           /\ call.raised => call.ret = <<>>

\* k = 0 on a loaded model: the call returns, with the empty list
C27_Witness ==
    /\ call.op = "predict_top_k" /\ call.k = 0 /\ ~call.raised
    /\ call.invoked.set /\ call.ret = <<>>

\* k one more than the number of classes: the network ran, the call raised
C27_WitnessTooLarge ==
    /\ call.op = "predict_top_k" /\ call.k = NumClasses + 1 /\ call.raised
    /\ call.invoked.set

\* ------------------------------------------------------ failed requests
\* C28: a request answered 400 (unsupported extension) or 500 because its
\* upload could not be decoded leaves the service as it was: the model
\* handle, the cached classifier, the constructor invocations and the image
\* processor are the same before and after it, so a later request meets
\* the state it would have met without it.
C28_FailedRequestFrame ==
    [][\A r \in Requests :
          (\/ /\ req[r].pc = "idle" /\ req'[r].pc = "done"
              /\ req'[r].response.status = 400
           \/ /\ req[r].pc = "reading" /\ req'[r].pc = "done"
              /\ req'[r].response.status = 500
              /\ req'[r].response.body.detail.cause = "decode")
              => UNCHANGED <<model, ctorCalls, ctorOk, classifier_instance,
                             clsCtorCalls, clsCtorOk, image_processor>>]_vars

\* ------------------------- the responses as a function of the score vector
\* an upload that decodes to the image with score vector t
Upload(t) ==
    [image |-> TRUE, intact |-> TRUE, mode |-> "RGB", width |-> 640, height |-> 480,
     scores |-> t]

\* a freshly started service; an image of every score vector is sent once
\* to /classify or to /predict, and nothing fails
InitReply ==
    /\ InitService
    /\ \E t \in ScoreVectors :
         call = [NoCall EXCEPT !.op = "input", !.tensor = t, !.k = TopK]

\* the try block of /classify on the input
ClassifyReply ==
    /\ call.op = "input"
    /\ \E o \in classify_try(model, ctorCalls + 1, <<"a", ".", "j", "p", "g">>,
                             Upload(call.tensor), "none") :
         /\ model' = o.model
         /\ ctorCalls' = ctorCalls + o.ctor
         /\ ctorOk' = ctorOk + Returned(o.ctor, o.model.set)
         /\ call' = [call EXCEPT !.op = "classify", !.ctor = o.ctor, !.ret = o.response]
    /\ UNCHANGED <<image_processor, classifier_instance, clsCtorCalls, clsCtorOk, req, thr>>

\* the try block of /predict on the input
PredictReply ==
    /\ call.op = "input"
    /\ \E o \in predict_try(classifier_instance, clsCtorCalls + 1, Upload(call.tensor),
                            "none") :
         /\ classifier_instance' = o.instance
         /\ clsCtorCalls' = clsCtorCalls + o.ctor
         /\ clsCtorOk' = clsCtorOk + Returned(o.ctor, o.instance.set)
         /\ call' = [call EXCEPT !.op = "predict", !.ctor = o.ctor, !.ret = o.response]
    /\ UNCHANGED <<image_processor, model, ctorCalls, ctorOk, req, thr>>

NextReply == ClassifyReply \/ PredictReply
ReplySpec == InitReply /\ [][NextReply]_vars

\* C29: the top prediction of a response is the first entry of its list, by
\* label and by confidence: in /classify prediction.class_name and
\* prediction.confidence are those of top_k[0], also when several classes
\* tie for the maximum, and in /predict top_prediction is predictions[0].
C29_TopIsFirst ==
    /\ (call.op = "classify" /\ call.ret.status = 200)
         => /\ call.ret.body.prediction.class_name = call.ret.body.top_k[1].class_name
            /\ call.ret.body.prediction.confidence = call.ret.body.top_k[1].confidence
    /\ (call.op = "predict" /\ call.ret.status = 200)
         => call.ret.body.top_prediction = call.ret.body.predictions[1]

=============================================================================
